---- MODULE Spec2Model ----
(***************************************************************************)
(* The room/session coordinator of counter-strategy: the socket.io server  *)
(* that keeps the rooms Map and the users Map and serves get-lobbies,      *)
(* create-room, join-room, toggle-ready, disconnect, get-room-state and    *)
(* send-message.  Node runs every handler to completion (no handler        *)
(* awaits), so each handler is one action.                                 *)
(*                                                                         *)
(* Strings are sequences of one-character strings, so that trim(),         *)
(* substring() and toUpperCase() are computed and not assumed.             *)
(***************************************************************************)
EXTENDS Integers, Sequences, FiniteSets, TLC

(***************************************************************************)
(* Bounds of the model.                                                    *)
(***************************************************************************)
\* Number of socket ids that ever connect.
NumConns == 3
\* Requests served in one run of Spec (connections are not counted).
MaxSteps == 2
\* Requests served in one run of SpecSession.
MaxSessionSteps == 6
\* The start-game emissions counted per room (the count saturates here).
MaxStartCount == 2

\* Rooms created in one run of SpecLobbies.
MaxLobbyRooms == 7

\* Requests served in one run of SpecRooms.
MaxRoomsSteps == 7

\* Requests served in one run of SpecReuse.
MaxReuseSteps == 6

\* Requests served in one run of SpecChat.
MaxChatSteps == 5
\* The readings of the system clock are 0..MaxClock.
MaxClock == 2

\* Requests served in one run of SpecBroadcast.
MaxBroadcastSteps == 6
\* Button presses and disconnects in one run of SpecClient.
MaxClientSteps == 6

(***************************************************************************)
(* Program constants.                                                      *)
(***************************************************************************)
\* rooms hold at most 2 users ("assuming max 2 for now").
Capacity == 2
\* A username needs 3 characters after trim().
MinNameLen == 3
\* uuidv4().substring(0, 6)
CodeLen == 6
\* get-lobbies stops after 5 lobbies.
LobbyLimit == 5

Conns == 1..NumConns

(***************************************************************************)
(* String helpers: String.prototype.trim, toUpperCase, substring.          *)
(***************************************************************************)
WhiteSpace == {" "}

RECURSIVE TrimStart(_)
TrimStart(s) ==
    IF s # <<>> /\ Head(s) \in WhiteSpace THEN TrimStart(Tail(s)) ELSE s

RECURSIVE TrimEnd(_)
TrimEnd(s) ==
    IF s # <<>> /\ s[Len(s)] \in WhiteSpace
    THEN TrimEnd(SubSeq(s, 1, Len(s) - 1))
    ELSE s

Trim(s) == TrimEnd(TrimStart(s))

UpperChar(ch) ==
    CASE ch = "a" -> "A"
      [] ch = "b" -> "B"
      [] ch = "c" -> "C"
      [] ch = "d" -> "D"
      [] ch = "e" -> "E"
      [] ch = "f" -> "F"
      [] OTHER -> ch

ToUpperCase(s) == [i \in DOMAIN s |-> UpperChar(s[i])]

\* s.substring(0, n)
Substring0(s, n) == SubSeq(s, 1, IF Len(s) < n THEN Len(s) ELSE n)

Pad(n) == [i \in 1..n |-> " "]

(***************************************************************************)
(* Inputs.                                                                 *)
(***************************************************************************)
\* The leading 8 characters of the values uuidv4() returns; a value's first 6
\* can be those of a value returned before.
UuidValues ==
    { <<"a", "1", "e", "0", "7", "c", "3", "9">>,
      <<"b", "4", "d", "2", "f", "0", "8", "6">> }

\* Display names a client submits: empty, blank, too short with and without
\* blanks around, and valid ones: with blanks around, with a blank inside, and
\* one that differs from another by the case of a letter.
NameInputs ==
    { <<>>, Pad(3), <<"a", "b">>, Pad(1) \o <<"a", "b">> \o Pad(1),
      Pad(1) \o <<"a", "b", "c">> \o Pad(2), <<"a", " ", "b">>, <<"A", "b", "c">> }

\* Room codes a client submits: none, a code as the server stores it, and the
\* same code in lower case.
RoomIdInputs ==
    {<<>>} \cup { ToUpperCase(Substring0(u, CodeLen)) : u \in UuidValues }
           \cup { Substring0(u, CodeLen) : u \in UuidValues }

\* Room codes a user types into the lobby form: none, blanks, and the codes
\* the server stores, in lower case with blanks around or as they are.
TypedCodes ==
    {<<>>, Pad(2)} \cup { Pad(1) \o Substring0(u, CodeLen) \o Pad(2) : u \in UuidValues }
                  \cup { ToUpperCase(Substring0(u, CodeLen)) : u \in UuidValues }

\* The room ids create-room can store.
StoredRoomIds == { ToUpperCase(Substring0(u, CodeLen)) : u \in UuidValues }

\* The values uuidv4() returns to a host that opens many rooms, all different
\* in their first character, and the room ids made of them.
HexDigits ==
    << "0", "1", "2", "3", "4", "5", "6", "7", "8", "9", "a", "b", "c", "d",
       "e", "f" >>
LobbyUuid(k) == << HexDigits[k + 1], "b", "c", "d", "e", "f", "0", "0" >>
LobbyRoomIds ==
    { ToUpperCase(Substring0(LobbyUuid(k), CodeLen)) : k \in 1..MaxLobbyRooms }

\* The { message, username } a client puts into send-message.
ChatInputs ==
    { [message |-> <<>>, username |-> <<"a", "b", "c">>],
      [message |-> <<" ">>, username |-> <<"a", "b", "c">>],
      [message |-> <<"h", "i", " ">>, username |-> <<"a", "b", "c">>],
      [message |-> <<"h", "i", " ">>, username |-> <<>>] }

(***************************************************************************)
(* State.                                                                  *)
(***************************************************************************)
VARIABLES
    sockets,    \* socket id -> "unborn" | "open" | "closed"
    rooms,      \* the rooms Map, in insertion order: <<[id, users]>>
    users,      \* the users Map, as its entries [id, username], one per key
    sockRooms,  \* socket id -> the socket.io rooms the socket has joined
    starts,     \* room id -> start-game emissions since the room was created
    request,    \* the event the last handler served, its socket and arguments
    out,        \* what the last handler sent, in order: responses and events
    steps,      \* requests served so far
    ended,      \* the last request left the server's state as it was
    now,        \* the system clock, as Date.now() reads it
    chatLog,    \* the chat messages accepted so far, in order: <<[roomId, msg]>>
    inbox,      \* socket id -> the new-message events delivered to it, in
                \* order, each with its position in chatLog
    applied,    \* the rooms as each change of a room left them, in order
    seen,       \* socket id -> the room-update events delivered to it, in
                \* order, each with the position in applied of the change
                \* it was emitted after
    client      \* socket id -> the state of the Lobby component of its
                \* client: joinedRoomId, roomState, gameStarted

\* The state of the server and of socket.io.
server == <<sockets, rooms, users, sockRooms, starts>>

\* What the chat leaves behind; the server keeps none of it.
chat == <<chatLog, inbox>>

\* The record of the changes of the rooms and of the room-update events
\* received, kept in the runs of SpecBroadcast.
broadcasts == <<applied, seen>>

vars ==
    <<sockets, rooms, users, sockRooms, starts, request, out, steps, ended, now,
      chatLog, inbox, applied, seen, client>>

\* The errors of the handlers, as the code words them.
ErrInvalidName == "Username must be at least 3 characters long."
ErrRoomNotFound == "Room not found."
ErrRoomFull == "Room is full."
ErrDuplicateName == "Username already taken in this room."
ErrUserNotFound == "User not found."
ErrNotInRoom == "User not found in any room."

NoRoom == [id |-> <<>>, users |-> <<>>]
\* messageData
NoMsg == [username |-> <<>>, message |-> <<>>, timestamp |-> 0]

Req(op, c, roomId, username, message) ==
    [op |-> op, conn |-> c, roomId |-> roomId, username |-> username,
     message |-> message]

\* socket.on(op, ...) of an open socket is called with these arguments.
Serve(op, c, roomId, username, message) ==
    /\ sockets[c] = "open"
    /\ steps' = steps + 1
    /\ request' = Req(op, c, roomId, username, message)
    /\ now' = now

\* One thing sent: a callback's response or an emitted event.
Sent(kind, to) ==
    [kind |-> kind, to |-> to, success |-> FALSE, error |-> "", roomId |-> <<>>,
     room |-> NoRoom, lobbies |-> <<>>, msg |-> NoMsg]

\* A failure that is reported as a success.
Failure_AsSuccess(c, error) == [Sent("response", {c}) EXCEPT !.success = TRUE]
\* callback({ success: false, error })
Failure(c, error) == [Sent("response", {c}) EXCEPT !.error = error]
\* callback({ success: true, roomId })
Success(c, roomId) == [Sent("response", {c}) EXCEPT !.success = TRUE, !.roomId = roomId]

(***************************************************************************)
(* The rooms Map: insertion-ordered, set() on a present key keeps its place.*)
(***************************************************************************)
RoomsHas(rs, id) == \E i \in DOMAIN rs : rs[i].id = id
RoomsIndex(rs, id) == CHOOSE i \in DOMAIN rs : rs[i].id = id
RoomsGet(rs, id) == rs[RoomsIndex(rs, id)]
RoomsSet(rs, id, room) ==
    IF RoomsHas(rs, id)
    THEN [rs EXCEPT ![RoomsIndex(rs, id)] = room]
    ELSE Append(rs, room)
RemoveAt(seq, i) == SubSeq(seq, 1, i - 1) \o SubSeq(seq, i + 1, Len(seq))
RoomsDelete(rs, id) ==
    IF RoomsHas(rs, id) THEN RemoveAt(rs, RoomsIndex(rs, id)) ELSE rs
RoomIds(rs) == { rs[i].id : i \in DOMAIN rs }

\* room.users.some((user) => user.id === socket.id)
HasUserId(room, c) == \E j \in DOMAIN room.users : room.users[j].id = c
\* room.users.findIndex((u) => u.id === socket.id), on a room that has one
UserIndex(room, c) ==
    CHOOSE j \in DOMAIN room.users :
        /\ room.users[j].id = c
        /\ \A k \in 1..(j - 1) : room.users[k].id # c
\* for (const [roomId, room] of rooms.entries()): the first room holding c
HasRoomOf(rs, c) == \E i \in DOMAIN rs : HasUserId(rs[i], c)
FirstRoomOf(rs, c) ==
    CHOOSE i \in DOMAIN rs :
        /\ HasUserId(rs[i], c)
        /\ \A k \in 1..(i - 1) : ~HasUserId(rs[k], c)

\* The users Map: has, set, delete.  An entry is the User object its room
\* holds; the handlers read only whether it is there (and its name, to log
\* it), so the entry is kept without the ready flag it shares with the room.
UsersHas(us, c) == \E u \in us : u.id = c
\* A delete that leaves the entry in the Map.
UsersDelete_Keep(us, c) == us
\* users.delete(socket.id)
UsersDelete(us, c) == { u \in us : u.id # c }
UsersSet(us, c, user) ==
    UsersDelete(us, c) \cup {[id |-> c, username |-> user.username]}

(***************************************************************************)
(* socket.io: io.to(roomId), io.emit, socket.emit.                         *)
(***************************************************************************)
\* The sockets io.to(roomId) reaches.
InSockRoom(sr, roomId) == { c \in Conns : roomId \in sr[c] }
\* The sockets io.emit reaches.
Connected(ss) == { c \in Conns : ss[c] = "open" }

\* An update emitted before the handler's change: it carries the room as
\* the handler found it.
EmitRoomUpdate_BeforeChange(rs, sr, roomId) ==
    IF RoomsHas(rooms, roomId)
    THEN << [Sent("room-update", InSockRoom(sr, roomId))
                EXCEPT !.room = RoomsGet(rooms, roomId)] >>
    ELSE <<>>

\* emitRoomUpdate(roomId)
EmitRoomUpdate(rs, sr, roomId) ==
    IF RoomsHas(rs, roomId)
    THEN << [Sent("room-update", InSockRoom(sr, roomId))
                EXCEPT !.room = RoomsGet(rs, roomId)] >>
    ELSE <<>>

\* io.emit("lobbies-updated")
LobbiesUpdated(ss) == Sent("lobbies-updated", Connected(ss))

\* A failure that is also announced to every connected socket.
ReturnFailure_Announced(c, error) == << Failure(c, error), LobbiesUpdated(sockets) >>
\* return callback({ success: false, error }): the handler emits nothing else
ReturnFailure(c, error) == << Failure(c, error) >>

\* useState(null), useState(null), useState(false): a client that has
\* joined no room, holds no room state and has seen no game start.
NoView == [joinedRoomId |-> <<>>, roomState |-> NoRoom, gameStarted |-> FALSE]

Init ==
    /\ sockets = [c \in Conns |-> "unborn"]
    /\ rooms = <<>>
    /\ users = {}
    /\ sockRooms = [c \in Conns |-> {}]
    /\ starts = [id \in StoredRoomIds \cup LobbyRoomIds |-> 0]
    /\ request = Req("none", 0, <<>>, <<>>, <<>>)
    /\ out = <<>>
    /\ steps = 0
    /\ ended = FALSE
    /\ now = 0
    /\ chatLog = <<>>
    /\ inbox = [c \in Conns |-> <<>>]
    /\ applied = <<>>
    /\ seen = [c \in Conns |-> <<>>]
    /\ client = [c \in Conns |-> NoView]

\* io.on("connection"): the socket gets its handlers.  Socket ids are opaque:
\* the model numbers them in the order they connect.
Connect(c) ==
    /\ sockets[c] = "unborn"
    /\ \A d \in 1..(c - 1) : sockets[d] # "unborn"
    /\ sockets' = [sockets EXCEPT ![c] = "open"]
    /\ request' = Req("connection", c, <<>>, <<>>, <<>>)
    /\ out' = <<>>
    /\ UNCHANGED <<rooms, users, sockRooms, starts, steps, ended, now, chat,
                   broadcasts, client>>

(***************************************************************************)
(* create-room                                                             *)
(***************************************************************************)
\* A name check that measures the name as submitted.
NameRejected_NoTrim(username) == username = <<>> \/ Len(username) < MinNameLen
\* !username || username.trim().length < 3
NameRejected(username) == username = <<>> \/ Len(Trim(username)) < MinNameLen

\* { id: socket.id, username: username.trim(), ready: false }
NewUser(c, username) == [id |-> c, username |-> Trim(username), ready |-> FALSE]

\* uuidv4().substring(0, 6).toUpperCase()
NewRoomId(uuid) == ToUpperCase(Substring0(uuid, CodeLen))

CreateRoom(c, username, uuid) ==
    /\ Serve("create-room", c, <<>>, username, <<>>)
    /\ UNCHANGED chat
    /\ IF NameRejected(username)
       THEN /\ out' = ReturnFailure(c, ErrInvalidName)
            /\ UNCHANGED <<sockets, rooms, users, sockRooms, starts>>
       ELSE LET roomId == NewRoomId(uuid)
                newUser == NewUser(c, username)
                newRoom == [id |-> roomId, users |-> << newUser >>]
            IN  /\ rooms' = RoomsSet(rooms, roomId, newRoom)
                /\ users' = UsersSet(users, c, newUser)
                /\ sockRooms' = [sockRooms EXCEPT ![c] = @ \cup {roomId}]
                /\ starts' = [starts EXCEPT ![roomId] = 0]
                /\ out' = << Success(c, roomId) >>
                            \o EmitRoomUpdate(rooms', sockRooms', roomId)
                            \o << LobbiesUpdated(sockets) >>
                /\ UNCHANGED sockets

(***************************************************************************)
(* join-room                                                               *)
(***************************************************************************)
\* !roomId || !rooms.has(roomId)
RoomMissing(rs, roomId) == roomId = <<>> \/ ~RoomsHas(rs, roomId)
\* A capacity check that lets one member too many in.
RoomFull_OffByOne(room) == Len(room.users) > Capacity
\* room.users.length >= 2
RoomFull(room) == Len(room.users) >= Capacity
\* A name check that finds no name taken.
NameTaken_Never(room, username) == FALSE
\* A name check that takes names differing by the case of a letter as equal.
NameTaken_IgnoreCase(room, username) ==
    \E j \in DOMAIN room.users :
        ToUpperCase(room.users[j].username) = ToUpperCase(Trim(username))
\* room.users.some((user) => user.username === username.trim())
NameTaken(room, username) ==
    \E j \in DOMAIN room.users : room.users[j].username = Trim(username)

\* A push that puts the new user in front of the others.
PushUser_Unshift(room, newUser) == [room EXCEPT !.users = << newUser >> \o @]
\* room.users.push(newUser)
PushUser(room, newUser) == [room EXCEPT !.users = Append(@, newUser)]

\* The body of the join-room handler.
\* The checks with the names of the members looked at before their number.
JoinError_NameBeforeFull(rs, roomId, username) ==
    IF NameRejected(username) THEN ErrInvalidName
    ELSE IF RoomMissing(rs, roomId) THEN ErrRoomNotFound
    ELSE IF NameTaken(RoomsGet(rs, roomId), username) THEN ErrDuplicateName
    ELSE IF RoomFull(RoomsGet(rs, roomId)) THEN ErrRoomFull
    ELSE ""
\* The four checks of join-room, each returning its failure: the error of
\* the first that applies, "" when none does.
JoinError(rs, roomId, username) ==
    IF NameRejected(username) THEN ErrInvalidName
    ELSE IF RoomMissing(rs, roomId) THEN ErrRoomNotFound
    ELSE IF RoomFull(RoomsGet(rs, roomId)) THEN ErrRoomFull
    ELSE IF NameTaken(RoomsGet(rs, roomId), username) THEN ErrDuplicateName
    ELSE ""

\* A join that emits the room update before it confirms.
JoinSends_UpdateFirst(confirmation, update, signal) ==
    update \o << confirmation >> \o << signal >>
\* callback({ success: true, roomId }); emitRoomUpdate(roomId);
\* io.emit("lobbies-updated")
JoinSends(confirmation, update, signal) ==
    << confirmation >> \o update \o << signal >>

JoinRoomHandler(c, roomId, username) ==
    /\ UNCHANGED chat
    /\ IF JoinError(rooms, roomId, username) # ""
       THEN /\ out' = ReturnFailure(c, JoinError(rooms, roomId, username))
            /\ UNCHANGED <<sockets, rooms, users, sockRooms, starts>>
       ELSE LET room == RoomsGet(rooms, roomId)
                newUser == NewUser(c, username)
            IN  /\ rooms' = RoomsSet(rooms, roomId, PushUser(room, newUser))
                /\ users' = UsersSet(users, c, newUser)
                /\ sockRooms' = [sockRooms EXCEPT ![c] = @ \cup {roomId}]
                /\ out' = JoinSends(Success(c, roomId),
                                    EmitRoomUpdate(rooms', sockRooms', roomId),
                                    LobbiesUpdated(sockets))
                /\ UNCHANGED <<sockets, starts>>

JoinRoom(c, roomId, username) ==
    /\ Serve("join-room", c, roomId, username, <<>>)
    /\ JoinRoomHandler(c, roomId, username)

\* A normalisation that leaves the case of the letters.
NormalizeCode_TrimOnly(roomCode) == Trim(roomCode)
\* roomCode.trim().toUpperCase()
NormalizeCode(roomCode) == ToUpperCase(Trim(roomCode))

\* The client's handleAction("join") with the room code and the name typed
\* into the lobby form: it emits join-room with the normalised code and the
\* trimmed name, or emits nothing and shows an error of its own.
HandleActionJoin(c, roomCode, username) ==
    /\ Serve("handleAction-join", c, roomCode, username, <<>>)
    /\ LET name == Trim(username)
           code == NormalizeCode(roomCode)
       IN  IF Len(name) < MinNameLen \/ code = <<>>
           THEN /\ out' = <<>>
                /\ UNCHANGED <<sockets, rooms, users, sockRooms, starts, chat>>
           ELSE JoinRoomHandler(c, code, name)

(***************************************************************************)
(* toggle-ready                                                            *)
(***************************************************************************)
\* A flip of the flag of every user of the room.
FlipReady_All(room, c) ==
    [room EXCEPT !.users = [j \in DOMAIN @ |-> [@[j] EXCEPT !.ready = ~@]]]
\* userInRoom.ready = !userInRoom.ready, on the first user of the room whose
\* id is the socket's (room.users.find)
FlipReady(room, c) ==
    [room EXCEPT !.users[UserIndex(room, c)].ready = ~@]

\* A start check that forgets the number of members.
CanStart_AnySize(room) == \A j \in DOMAIN room.users : room.users[j].ready
\* A start check that compares the number of members with > for ===.
CanStart_OverCapacity(room) ==
    /\ Len(room.users) > Capacity
    /\ \A j \in DOMAIN room.users : room.users[j].ready
\* roomToUpdate.users.length === 2 && roomToUpdate.users.every((u) => u.ready)
CanStart(room) ==
    /\ Len(room.users) = Capacity
    /\ \A j \in DOMAIN room.users : room.users[j].ready

\* io.to(userRoomId).emit("start-game", roomToUpdate)
StartGame(sr, room) == [Sent("start-game", InSockRoom(sr, room.id)) EXCEPT !.room = room]

CountStart(n) == IF n < MaxStartCount THEN n + 1 ELSE n

\* The failure answered after the loop whether or not a room was found.
NotFoundReply_Always(c, found) == << Failure(c, ErrNotInRoom) >>
\* if (!userRoomId || !roomToUpdate) return callback({ success: false, ... })
NotFoundReply(c, found) == IF found THEN <<>> ELSE << Failure(c, ErrNotInRoom) >>

\* A toggle that emits the start before the update and the response.
ToggleSends_StartFirst(update, response, reply, start) ==
    start \o update \o << response >> \o reply
\* emitRoomUpdate(roomId); callback({ success: true }) in the loop, the check
\* after the loop, then start-game and lobbies-updated if the game can start
ToggleSends(update, response, reply, start) ==
    update \o << response >> \o reply \o start

ToggleReady(c) ==
    /\ Serve("toggle-ready", c, <<>>, <<>>, <<>>)
    /\ UNCHANGED chat
    /\ IF ~UsersHas(users, c)
       THEN /\ out' = ReturnFailure(c, ErrUserNotFound)
            /\ UNCHANGED <<sockets, rooms, users, sockRooms, starts>>
       ELSE IF ~HasRoomOf(rooms, c)
       THEN /\ out' = NotFoundReply(c, FALSE)
            /\ UNCHANGED <<sockets, rooms, users, sockRooms, starts>>
       ELSE LET i == FirstRoomOf(rooms, c)
                roomToUpdate == FlipReady(rooms[i], c)
                userRoomId == roomToUpdate.id
            IN  /\ rooms' = [rooms EXCEPT ![i] = roomToUpdate]
                /\ IF CanStart(roomToUpdate)
                   THEN /\ out' = ToggleSends(
                                      EmitRoomUpdate(rooms', sockRooms, userRoomId),
                                      Success(c, <<>>),
                                      NotFoundReply(c, TRUE),
                                      << StartGame(sockRooms, roomToUpdate),
                                         LobbiesUpdated(sockets) >>)
                        /\ starts' = [starts EXCEPT ![userRoomId] = CountStart(@)]
                   ELSE /\ out' = ToggleSends(
                                      EmitRoomUpdate(rooms', sockRooms, userRoomId),
                                      Success(c, <<>>),
                                      NotFoundReply(c, TRUE),
                                      <<>>)
                        /\ UNCHANGED starts
                /\ UNCHANGED <<sockets, users, sockRooms>>

(***************************************************************************)
(* disconnect                                                              *)
(***************************************************************************)
\* room.users.splice(userIndex, 1)
SpliceUser(room, c) == [room EXCEPT !.users = RemoveAt(@, UserIndex(room, c))]

\* A fullness check that no room meets.
WasRoomFull_Never(room) == Len(room.users) < 0
\* room.users.length === 2, before the splice
WasRoomFull(room) == Len(room.users) = 2

\* An emptiness check that no room meets.
RoomEmpty_Never(room) == Len(room.users) < 0
\* room.users.length === 0
RoomEmpty(room) == Len(room.users) = 0

\* The body of the disconnect handler.  socket.io has taken the socket out
\* of its rooms when "disconnect" fires.
DisconnectCleanup(c) ==
    /\ UNCHANGED chat
    /\ sockets' = [sockets EXCEPT ![c] = "closed"]
    /\ sockRooms' = [sockRooms EXCEPT ![c] = {}]
    /\ IF ~UsersHas(users, c)
       THEN /\ out' = <<>>
            /\ UNCHANGED <<rooms, users, starts>>
       ELSE /\ users' = UsersDelete(users, c)
            /\ IF ~HasRoomOf(rooms, c)
               THEN /\ out' = <<>>
                    /\ UNCHANGED <<rooms, starts>>
               ELSE LET i == FirstRoomOf(rooms, c)
                        roomId == rooms[i].id
                        wasRoomFull == WasRoomFull(rooms[i])
                        room == SpliceUser(rooms[i], c)
                    IN  IF RoomEmpty(room)
                        THEN /\ rooms' = RoomsDelete(rooms, roomId)
                             /\ starts' = [starts EXCEPT ![roomId] = 0]
                             /\ out' = << LobbiesUpdated(sockets') >>
                        ELSE /\ rooms' = [rooms EXCEPT ![i] = room]
                             /\ out' = EmitRoomUpdate(rooms', sockRooms', roomId)
                                         \o (IF wasRoomFull
                                             THEN << LobbiesUpdated(sockets') >>
                                             ELSE <<>>)
                             /\ UNCHANGED starts

Disconnect(c) ==
    /\ Serve("disconnect", c, <<>>, <<>>, <<>>)
    /\ DisconnectCleanup(c)

\* The disconnect handler of a socket, run once more after it has run.
DisconnectAgain(c) ==
    /\ sockets[c] = "closed"
    /\ steps' = steps + 1
    /\ request' = Req("disconnect-again", c, <<>>, <<>>, <<>>)
    /\ now' = now
    /\ DisconnectCleanup(c)

(***************************************************************************)
(* get-lobbies, get-room-state, send-message                               *)
(***************************************************************************)
\* A filter that lets full rooms through.
IsOpenLobby_WithFull(n) == n > 0 /\ n <= 2
\* room.users.length > 0 && room.users.length < 2
IsOpenLobby(n) == n > 0 /\ n < 2

\* The loop of get-lobbies from room i on, availableLobbies being acc.
RECURSIVE LobbyScan(_, _, _)
LobbyScan(rs, i, acc) ==
    IF i > Len(rs) THEN acc
    ELSE LET n == Len(rs[i].users)
             acc2 == IF IsOpenLobby(n)
                     THEN Append(acc, [id |-> rs[i].id, playerCount |-> n])
                     ELSE acc
         IN  IF Len(acc2) >= LobbyLimit THEN acc2 ELSE LobbyScan(rs, i + 1, acc2)

GetLobbies(c) ==
    /\ Serve("get-lobbies", c, <<>>, <<>>, <<>>)
    /\ UNCHANGED chat
    /\ out' = << [Sent("response", {c}) EXCEPT !.success = TRUE,
                                               !.lobbies = LobbyScan(rooms, 1, <<>>)] >>
    /\ UNCHANGED <<sockets, rooms, users, sockRooms, starts>>

\* A check that lets any requester see a live room.
CanSeeRoom_AnyRequester(rs, roomId, c) == RoomsHas(rs, roomId)
\* room && room.users.some((user) => user.id === socket.id)
CanSeeRoom(rs, roomId, c) ==
    RoomsHas(rs, roomId) /\ HasUserId(RoomsGet(rs, roomId), c)

GetRoomState(c, roomId) ==
    /\ Serve("get-room-state", c, roomId, <<>>, <<>>)
    /\ UNCHANGED chat
    /\ out' = IF CanSeeRoom(rooms, roomId, c)
              THEN << [Sent("specific-room-update", {c})
                          EXCEPT !.room = RoomsGet(rooms, roomId)] >>
              ELSE <<>>
    /\ UNCHANGED <<sockets, rooms, users, sockRooms, starts>>

\* !roomId || !message || !username
MessageIgnored(roomId, message, username) ==
    roomId = <<>> \/ message = <<>> \/ username = <<>>

\* { username, message: message.trim(), timestamp: Date.now() }
MessageData(username, message, timestamp) ==
    [username |-> username, message |-> Trim(message), timestamp |-> timestamp]

\* socket.io delivers the events of a socket in the order they were emitted.
Deliver(box, to, item) ==
    [c \in Conns |-> IF c \in to THEN Append(box[c], item) ELSE box[c]]

SendMessage(c, roomId, message, username) ==
    /\ Serve("send-message", c, roomId, username, message)
    /\ IF MessageIgnored(roomId, message, username)
       THEN out' = <<>> /\ UNCHANGED chat
       ELSE IF ~RoomsHas(rooms, roomId)
               \/ ~HasUserId(RoomsGet(rooms, roomId), c)
       THEN out' = <<>> /\ UNCHANGED chat
       ELSE LET messageData == MessageData(username, message, now)
                to == InSockRoom(sockRooms, roomId)
            IN  /\ out' = << [Sent("new-message", to)
                                EXCEPT !.roomId = roomId, !.msg = messageData] >>
                /\ chatLog' = Append(chatLog, [roomId |-> roomId, msg |-> messageData])
                /\ inbox' = Deliver(inbox, to,
                                    [n |-> Len(chatLog) + 1, roomId |-> roomId,
                                     msg |-> messageData])
    /\ UNCHANGED <<sockets, rooms, users, sockRooms, starts>>

\* Time passes: Date.now() reads more.
Tick ==
    /\ now < MaxClock
    /\ now' = now + 1
    /\ UNCHANGED <<sockets, rooms, users, sockRooms, starts, request, out, steps,
                   ended, chat, broadcasts, client>>

\* The system clock is set back (by hand, or by a time service that steps
\* it): Date.now() reads less than it did.
ClockSetBack ==
    /\ \E t \in 0..(now - 1) : now' = t
    /\ UNCHANGED <<sockets, rooms, users, sockRooms, starts, request, out, steps,
                   ended, chat, broadcasts, client>>

(***************************************************************************)
(* Specifications.  A request that is rejected, a query and a chat message *)
(* leave the server's state as it was, so every state of the server is     *)
(* reached by requests that change it; a run is followed up to its first   *)
(* request that changes nothing, which keeps each such request, in every   *)
(* reachable state of the server, without following it further.            *)
(***************************************************************************)
Request(max, Handler) ==
    /\ steps < max
    /\ Handler
    /\ ended' = (server' = server)
    /\ UNCHANGED <<broadcasts, client>>

\* Every handler, with every input a client can send.
Next ==
    \/ ~ended /\ \E c \in Conns : Connect(c)
    \/ ~ended /\ \E c \in Conns : Request(MaxSteps, GetLobbies(c))
    \/ ~ended /\ \E c \in Conns, username \in NameInputs, uuid \in UuidValues :
            Request(MaxSteps, CreateRoom(c, username, uuid))
    \/ ~ended /\ \E c \in Conns, roomId \in RoomIdInputs, username \in NameInputs :
            Request(MaxSteps, JoinRoom(c, roomId, username))
    \/ ~ended /\ \E c \in Conns, roomCode \in TypedCodes, username \in NameInputs :
            Request(MaxSteps, HandleActionJoin(c, roomCode, username))
    \/ ~ended /\ \E c \in Conns : Request(MaxSteps, ToggleReady(c))
    \/ ~ended /\ \E c \in Conns : Request(MaxSteps, Disconnect(c))
    \/ ~ended /\ \E c \in Conns, roomId \in RoomIdInputs :
            Request(MaxSteps, GetRoomState(c, roomId))
    \/ ~ended /\ \E c \in Conns, roomId \in RoomIdInputs, data \in ChatInputs :
            Request(MaxSteps, SendMessage(c, roomId, data.message, data.username))

Spec == Init /\ [][Next]_vars

\* Longer runs, of the life of one room at a time: create-room is served
\* while no room is live, and the clients submit the room ids the server
\* handed out, names that are valid but for one, and a chat text.
SessionNames ==
    { Pad(1) \o <<"a", "b", "c">> \o Pad(2), <<"a", " ", "b">>, <<"A", "b", "c">>,
      Pad(1) \o <<"a", "b">> \o Pad(1) }
SessionChat == { [message |-> <<"h", "i", " ">>, username |-> <<"a", "b", "c">>] }

NextSession ==
    \/ ~ended /\ \E c \in Conns : Connect(c)
    \/ ~ended /\ \E c \in Conns : Request(MaxSessionSteps, GetLobbies(c))
    \/ ~ended /\ rooms = <<>>
          /\ \E c \in Conns, username \in SessionNames, uuid \in UuidValues :
                Request(MaxSessionSteps, CreateRoom(c, username, uuid))
    \/ ~ended /\ \E c \in Conns, roomId \in StoredRoomIds, username \in SessionNames :
            Request(MaxSessionSteps, JoinRoom(c, roomId, username))
    \/ ~ended /\ \E c \in Conns : Request(MaxSessionSteps, ToggleReady(c))
    \/ ~ended /\ \E c \in Conns : Request(MaxSessionSteps, Disconnect(c))
    \/ ~ended /\ \E c \in Conns : Request(MaxSessionSteps, DisconnectAgain(c))
    \/ ~ended /\ \E c \in Conns, roomId \in StoredRoomIds :
            Request(MaxSessionSteps, GetRoomState(c, roomId))
    \/ ~ended /\ \E c \in Conns, roomId \in StoredRoomIds, data \in SessionChat :
            Request(MaxSessionSteps,
                    SendMessage(c, roomId, data.message, data.username))

SpecSession == Init /\ [][NextSession]_vars

\* Many rooms at once, for get-lobbies: one host (the first connection)
\* opens room after room, which the code allows, a guest (the second) fills
\* some of them, any connection asks for the lobbies, and any connection
\* closes.  uuidv4() hands out a fresh value each time, the k-th being
\* LobbyUuid(k).
HostName == << "a", "b", "c" >>
GuestName == << "a", " ", "b" >>

NextLobbies ==
    \/ ~ended /\ \E c \in Conns : Connect(c)
    \/ ~ended /\ Len(rooms) < MaxLobbyRooms
          /\ Request(2 * MaxLobbyRooms + 1,
                     CreateRoom(1, HostName, LobbyUuid(Len(rooms) + 1)))
    \/ ~ended /\ \E i \in DOMAIN rooms :
            /\ Len(rooms[i].users) < Capacity
            /\ Request(2 * MaxLobbyRooms + 1, JoinRoom(2, rooms[i].id, GuestName))
    \/ ~ended /\ \E c \in Conns : Request(2 * MaxLobbyRooms + 1, Disconnect(c))
    \/ ~ended /\ \E c \in Conns : Request(2 * MaxLobbyRooms + 1, GetLobbies(c))

SpecLobbies == Init /\ [][NextLobbies]_vars

\* Two rooms side by side, through their whole life: every connection
\* creates and joins rooms under a name of its own, toggles and closes;
\* uuidv4() hands out a value whose room id no live room has.
NameOf(c) == << "a", "b", "c", HexDigits[c + 1] >>

NextRooms ==
    \/ ~ended /\ \E c \in Conns : Connect(c)
    \/ ~ended /\ \E c \in Conns, uuid \in UuidValues :
            /\ ~RoomsHas(rooms, NewRoomId(uuid))
            /\ Request(MaxRoomsSteps, CreateRoom(c, NameOf(c), uuid))
    \/ ~ended /\ \E c \in Conns, roomId \in StoredRoomIds :
            Request(MaxRoomsSteps, JoinRoom(c, roomId, NameOf(c)))
    \/ ~ended /\ \E c \in Conns : Request(MaxRoomsSteps, ToggleReady(c))
    \/ ~ended /\ \E c \in Conns : Request(MaxRoomsSteps, Disconnect(c))

SpecRooms == Init /\ [][NextRooms]_vars

\* One room id over and over: uuidv4() hands out values with the same
\* first 6 characters, so a create-room replaces the live room and leaves
\* its members in the users Map without a room.
ReusedUuid == << "a", "1", "e", "0", "7", "c", "3", "9" >>

NextReuse ==
    \/ ~ended /\ \E c \in Conns : Connect(c)
    \/ ~ended /\ \E c \in Conns :
            Request(MaxReuseSteps, CreateRoom(c, NameOf(c), ReusedUuid))
    \/ ~ended /\ \E c \in Conns :
            Request(MaxReuseSteps, JoinRoom(c, NewRoomId(ReusedUuid), NameOf(c)))
    \/ ~ended /\ \E c \in Conns : Request(MaxReuseSteps, ToggleReady(c))
    \/ ~ended /\ \E c \in Conns : Request(MaxReuseSteps, Disconnect(c))

SpecReuse == Init /\ [][NextReuse]_vars

\* The chat of the rooms: a host (the first connection) opens rooms, the
\* others join them under a name of their own, and members send texts, one
\* after the other, while the clock moves.  Here a run goes on after a
\* message.
ChatText == << "h", "i", " " >>

NextChat ==
    \/ \E c \in Conns : Connect(c)
    \/ \E uuid \in UuidValues :
            /\ ~RoomsHas(rooms, NewRoomId(uuid))
            /\ Request(MaxChatSteps, CreateRoom(1, HostName, uuid))
    \/ \E c \in Conns \ {1}, roomId \in StoredRoomIds :
            /\ RoomsHas(rooms, roomId)
            /\ ~HasUserId(RoomsGet(rooms, roomId), c)
            /\ Request(MaxChatSteps, JoinRoom(c, roomId, NameOf(c)))
    \/ \E c \in Conns, roomId \in StoredRoomIds :
            /\ steps < MaxChatSteps
            /\ CanSeeRoom(rooms, roomId, c)
            /\ SendMessage(c, roomId, ChatText, HostName)
            /\ ended' = FALSE
            /\ UNCHANGED <<broadcasts, client>>
    \/ Tick
    \/ ClockSetBack

SpecChat == Init /\ [][NextChat]_vars

\* The life of one room, with the record of its changes and of what every
\* socket receives: a handler's change of a room is appended to applied, and
\* socket.io delivers the room-update events the handler emitted, in the
\* order of emission, to the sockets they are addressed to.
ChangedRooms == { i \in DOMAIN rooms' : \A j \in DOMAIN rooms : rooms[j] # rooms'[i] }

RECURSIVE DeliverAll(_, _, _, _)
DeliverAll(box, sent, k, n) ==
    IF k > Len(sent) THEN box
    ELSE DeliverAll(IF sent[k].kind = "room-update"
                    THEN Deliver(box, sent[k].to, [n |-> n, room |-> sent[k].room])
                    ELSE box,
                    sent, k + 1, n)

Observed(max, Handler) ==
    /\ steps < max
    /\ Handler
    /\ ended' = (server' = server)
    /\ applied' = IF ChangedRooms = {} THEN applied
                  ELSE Append(applied, rooms'[CHOOSE i \in ChangedRooms : TRUE])
    /\ seen' = DeliverAll(seen, out', 1, Len(applied'))
    /\ UNCHANGED client

NextBroadcast ==
    \/ ~ended /\ \E c \in Conns : Connect(c)
    \/ ~ended /\ rooms = <<>>
          /\ \E c \in Conns :
                Observed(MaxBroadcastSteps, CreateRoom(c, NameOf(c), ReusedUuid))
    \/ ~ended /\ \E c \in Conns :
            Observed(MaxBroadcastSteps,
                     JoinRoom(c, NewRoomId(ReusedUuid), NameOf(c)))
    \/ ~ended /\ \E c \in Conns : Observed(MaxBroadcastSteps, ToggleReady(c))
    \/ ~ended /\ \E c \in Conns : Observed(MaxBroadcastSteps, Disconnect(c))

SpecBroadcast == Init /\ [][NextBroadcast]_vars

(***************************************************************************)
(* The client: the Lobby component of the socket's browser.                *)
(***************************************************************************)
\* const currentUser = roomState?.users.find((user) => user.id === socket?.id)
\* if (gameStarted && roomState && currentUser): the game scene is rendered
ShowsGame(view, c) ==
    view.gameStarted /\ view.roomState # NoRoom /\ HasUserId(view.roomState, c)

\* if (joinedRoomId && roomState): the joined room view, with its Ready and
\* Leave Room buttons, is rendered
ShowsRoom(view, c) ==
    ~ShowsGame(view, c) /\ view.joinedRoomId # <<>> /\ view.roomState # NoRoom

\* Otherwise the lobby form, with Join Room and Create Room, is rendered.
ShowsLobby(view, c) == ~ShowsGame(view, c) /\ ~ShowsRoom(view, c)

\* The listeners and callbacks of the component, for one thing the socket
\* receives.  On lobbies-updated the client asks get-room-state for the room
\* it has joined and the server answers with that room when it lists the
\* socket; rs is the rooms Map as the server answers.
ClientOn(view, sent, c, rs) ==
    CASE sent.kind = "response" ->
            IF sent.success /\ sent.roomId # <<>>
            THEN [view EXCEPT !.joinedRoomId = sent.roomId]
            ELSE view
      [] sent.kind \in {"room-update", "specific-room-update"} ->
            [view EXCEPT !.roomState = sent.room]
      [] sent.kind = "start-game" ->
            [view EXCEPT !.roomState = sent.room, !.gameStarted = TRUE]
      [] sent.kind = "lobbies-updated" ->
            IF view.joinedRoomId # <<>> /\ CanSeeRoom(rs, view.joinedRoomId, c)
            THEN [view EXCEPT !.roomState = RoomsGet(rs, view.joinedRoomId)]
            ELSE view
      [] OTHER -> view

\* Everything the handler sent is received, in the order it was sent.
RECURSIVE Render(_, _, _, _)
Render(views, sent, k, rs) ==
    IF k > Len(sent) THEN views
    ELSE Render([c \in Conns |->
                    IF c \in sent[k].to THEN ClientOn(views[c], sent[k], c, rs)
                    ELSE views[c]],
                sent, k + 1, rs)

Rendered(max, Handler) ==
    /\ steps < max
    /\ Handler
    /\ ended' = (server' = server)
    /\ client' = Render(client, out', 1, rooms')
    /\ UNCHANGED broadcasts

\* handleLeaveRoom: the component forgets the room and fetches the lobbies
\* (get-lobbies); nothing about the leave is emitted, so the server keeps
\* what it has.
HandleLeaveRoom(c) ==
    /\ steps < MaxClientSteps
    /\ ShowsRoom(client[c], c)
    /\ Serve("handleLeaveRoom", c, client[c].joinedRoomId, <<>>, <<>>)
    /\ out' = << [Sent("response", {c}) EXCEPT !.success = TRUE,
                                               !.lobbies = LobbyScan(rooms, 1, <<>>)] >>
    /\ UNCHANGED <<sockets, rooms, users, sockRooms, starts>>
    /\ client' = [client EXCEPT ![c].joinedRoomId = <<>>, ![c].roomState = NoRoom]
    /\ ended' = FALSE
    /\ UNCHANGED <<chat, broadcasts>>

\* What the users of the clients can do: each button is pressed in the view
\* that renders it.
NextClient ==
    \/ ~ended /\ \E c \in Conns : Connect(c)
    \/ ~ended /\ \E c \in Conns, uuid \in UuidValues :
            /\ ShowsLobby(client[c], c)
            /\ ~RoomsHas(rooms, NewRoomId(uuid))
            /\ Rendered(MaxClientSteps, CreateRoom(c, NameOf(c), uuid))
    \/ ~ended /\ \E c \in Conns, roomId \in StoredRoomIds :
            /\ ShowsLobby(client[c], c)
            /\ Rendered(MaxClientSteps, JoinRoom(c, roomId, NameOf(c)))
    \/ ~ended /\ \E c \in Conns :
            /\ ShowsRoom(client[c], c)
            /\ Rendered(MaxClientSteps, ToggleReady(c))
    \/ ~ended /\ \E c \in Conns : HandleLeaveRoom(c)
    \/ ~ended /\ \E c \in Conns : Rendered(MaxClientSteps, Disconnect(c))

SpecClient == Init /\ [][NextClient]_vars

(***************************************************************************)
(* Vocabulary of the properties.                                           *)
(***************************************************************************)
LiveRooms == { rooms[i] : i \in DOMAIN rooms }
AllReady(room) == \A j \in DOMAIN room.users : room.users[j].ready
\* The rooms that list connection c as a member, by position in the store.
RoomsListing(c) == { i \in DOMAIN rooms : HasUserId(rooms[i], c) }
StartsSent == { k \in DOMAIN out : out[k].kind = "start-game" }
Responses == { k \in DOMAIN out : out[k].kind = "response" }
Rejected(c, error) == out = << Failure(c, error) >>
ValidName(username) == Len(Trim(username)) >= 3

(***************************************************************************)
(* C1: in every reachable state every live room has at most 2 members.     *)
(***************************************************************************)
C1_AtMostTwoMembers == \A room \in LiveRooms : Len(room.users) <= 2

\* A join into a room of 2 members, with a valid name that neither member has,
\* has been rejected: the capacity check alone keeps the room at 2.
C1_Witness ==
    /\ request.op = "join-room"
    /\ ValidName(request.username)
    /\ Rejected(request.conn, ErrRoomFull)
    /\ \E room \in LiveRooms :
          /\ room.id = request.roomId
          /\ Len(room.users) = 2
          /\ \A j \in DOMAIN room.users :
                room.users[j].username # Trim(request.username)

(***************************************************************************)
(* C2: over the lifetime of a room start-game is emitted exactly once:     *)
(* never more than once, and at least once when the room holds 2 members   *)
(* that are all ready.                                                     *)
(***************************************************************************)
C2_StartExactlyOnce ==
    \A room \in LiveRooms :
        /\ starts[room.id] <= 1
        /\ (Len(room.users) = 2 /\ AllReady(room)) => starts[room.id] >= 1

(***************************************************************************)
(* C3: in every reachable state each connection is a member of at most one *)
(* room.                                                                   *)
(***************************************************************************)
C3_AtMostOneRoom == \A c \in Conns : Cardinality(RoomsListing(c)) <= 1

(***************************************************************************)
(* C4: a successful create-room returns a room id that no live room has at *)
(* that moment, so it replaces no live room.                               *)
(***************************************************************************)
C4_FreshRoomId ==
    [][request'.op = "create-room" =>
         \A username \in NameInputs, uuid \in UuidValues :
            (CreateRoom(request'.conn, username, uuid) /\ out'[1].success)
               => ~RoomsHas(rooms, out'[1].roomId)]_vars

(***************************************************************************)
(* C5: once the disconnect of connection c has been handled, no live room  *)
(* has a member with id c and the users map has no entry for c.            *)
(***************************************************************************)
C5_GoneAfterDisconnect ==
    \A c \in Conns :
        sockets[c] = "closed" => (RoomsListing(c) = {} /\ ~UsersHas(users, c))

(***************************************************************************)
(* C6: once start-game has been emitted for a room, a join-room or a       *)
(* toggle-ready leaves the room's member list and ready flags as they are. *)
(***************************************************************************)
C6_StartedRoomFrozen ==
    [][\A room \in LiveRooms :
         (starts[room.id] > 0 /\ request'.op \in {"join-room", "toggle-ready"})
            => room \in { rooms'[i] : i \in DOMAIN rooms' }]_vars

(***************************************************************************)
(* C7: start-game is emitted only by a toggle-ready that succeeds and      *)
(* leaves the caller's room with exactly 2 members, all ready; the event   *)
(* carries that room.                                                      *)
(***************************************************************************)
C7_StartOnlyFromToggle ==
    \A k \in StartsSent :
        /\ request.op = "toggle-ready"
        /\ \E r \in Responses : out[r].success /\ out[r].to = {request.conn}
        /\ out[k].room \in LiveRooms
        /\ HasUserId(out[k].room, request.conn)
        /\ Len(out[k].room.users) = 2
        /\ AllReady(out[k].room)

\* The second member's toggle has started a room.
C7_Witness ==
    /\ StartsSent # {}
    /\ request.op = "toggle-ready"
    /\ \E room \in LiveRooms :
          Len(room.users) = 2 /\ AllReady(room) /\ HasUserId(room, request.conn)

(***************************************************************************)
(* C8: a toggle-ready flips the flag and checks the start in one step, so  *)
(* no room holds 2 members that are all ready without its start-game: the  *)
(* toggle that makes the room full and ready emits it, and every such room *)
(* has had one.                                                            *)
(***************************************************************************)
C8_NeverWedged ==
    /\ \A room \in LiveRooms :
          (Len(room.users) = 2 /\ AllReady(room)) => starts[room.id] >= 1
    /\ (/\ request.op = "toggle-ready"
        /\ RoomsListing(request.conn) # {}
        /\ \E r \in Responses : out[r].success)
       => LET room == rooms[FirstRoomOf(rooms, request.conn)]
          IN  (Len(room.users) = 2 /\ AllReady(room))
                 => \E k \in StartsSent : out[k].room = room

\* Both members are ready, two different connections, after the toggle of one.
C8_Witness ==
    /\ request.op = "toggle-ready"
    /\ \E room \in LiveRooms :
          /\ Len(room.users) = 2
          /\ AllReady(room)
          /\ room.users[1].id # room.users[2].id
          /\ starts[room.id] = 1

(***************************************************************************)
(* C9: of two join-room requests of different connections for the last     *)
(* slot of a room, with valid names no member has, the one served first is *)
(* accepted and fills the room to 2 members; the other finds 2 members, is *)
(* rejected with "Room is full." and changes nothing.  (A join that finds  *)
(* 1 member is rejected only for a name that a member has.)                *)
(***************************************************************************)
C9_LastSlotRace ==
    (/\ request.op = "join-room"
     /\ ValidName(request.username)
     /\ RoomsHas(rooms, request.roomId))
    => LET c == request.conn
           room == RoomsGet(rooms, request.roomId)
       IN  IF out[1].success
           THEN /\ out[1] = Success(c, request.roomId)
                /\ Len(room.users) = 2
                /\ room.users[2].id = c
                /\ ~ended
           ELSE /\ ended
                /\ Len(room.users) = 2 => Rejected(c, ErrRoomFull)
                /\ Len(room.users) = 1
                     => \E j \in DOMAIN room.users :
                           room.users[j].username = Trim(request.username)

\* The loser of the race: rejected by a room whose second member is another
\* connection that joined the creator.
C9_Witness ==
    /\ request.op = "join-room"
    /\ ValidName(request.username)
    /\ Rejected(request.conn, ErrRoomFull)
    /\ \E room \in LiveRooms :
          /\ Len(room.users) = 2
          /\ room.users[2].id # request.conn
          /\ room.users[1].id # request.conn
          /\ room.users[1].id # room.users[2].id

(***************************************************************************)
(* C10: create-room and join-room with a name of fewer than 3 characters   *)
(* after trimming are rejected with the name error and change nothing of   *)
(* the server's state; create-room with a name of 3 or more trimmed        *)
(* characters succeeds and stores the trimmed name.                        *)
(***************************************************************************)
C10_NameValidation ==
    LET c == request.conn
        name == Trim(request.username)
    IN  /\ (request.op \in {"create-room", "join-room"} /\ Len(name) < 3)
            => (Rejected(c, ErrInvalidName) /\ ended)
        /\ (request.op = "create-room" /\ Len(name) >= 3)
            => /\ out[1].success
               /\ RoomsHas(rooms, out[1].roomId)
               /\ RoomsGet(rooms, out[1].roomId).users
                     = << [id |-> c, username |-> name, ready |-> FALSE] >>

\* A join into a live room has been rejected for a name that is long enough
\* as submitted and too short once trimmed.
C10_Witness ==
    /\ request.op = "join-room"
    /\ RoomsHas(rooms, request.roomId)
    /\ Len(request.username) >= 3
    /\ Len(Trim(request.username)) < 3
    /\ Rejected(request.conn, ErrInvalidName)

(***************************************************************************)
(* C11: a join-room with a valid name is rejected with "Room not found."   *)
(* when no live room has the room id given, with "Room is full." when the  *)
(* room has 2 members, and with "Username already taken in this room."     *)
(* when the room has a free slot and a member whose name is exactly the    *)
(* trimmed name given; every rejection leaves the rooms, the users map and *)
(* the sockets as they were, and a join is accepted only when none of the  *)
(* three applied.                                                          *)
(***************************************************************************)
C11_JoinRejections ==
    (request.op = "join-room" /\ ValidName(request.username))
    => LET c == request.conn
           name == Trim(request.username)
       IN  IF ~RoomsHas(rooms, request.roomId)
           THEN Rejected(c, ErrRoomNotFound) /\ ended
           ELSE LET members == RoomsGet(rooms, request.roomId).users
                    named == { j \in DOMAIN members : members[j].username = name }
                IN  IF out[1].success
                    THEN /\ ~ended
                         /\ Len(members) <= 2
                         /\ named = {Len(members)}
                    ELSE /\ ended
                         /\ Len(out) = 1
                         /\ out[1].error \in {ErrRoomFull, ErrDuplicateName}
                         /\ Len(members) >= 2 <=> Rejected(c, ErrRoomFull)
                         /\ Rejected(c, ErrDuplicateName) => named # {}
                         /\ (Len(members) < 2 /\ named # {})
                               => Rejected(c, ErrDuplicateName)

\* A join has been rejected for its name by a room with a free slot whose
\* member, another connection, has that name; the name was submitted with
\* blanks around it.
C11_Witness ==
    /\ request.op = "join-room"
    /\ Rejected(request.conn, ErrDuplicateName)
    /\ request.username # Trim(request.username)
    /\ \E room \in LiveRooms :
          /\ room.id = request.roomId
          /\ Len(room.users) = 1
          /\ room.users[1].id # request.conn
          /\ room.users[1].username = Trim(request.username)

(***************************************************************************)
(* C12: a join-room that succeeds appends one member, the caller under the *)
(* trimmed name with ready = false, at the end of the member list of the   *)
(* room and leaves the members before it, their order and their ready      *)
(* flags, and every other room, as they were; a create-room that succeeds  *)
(* stores a room of exactly one member, the caller with ready = false.     *)
(***************************************************************************)
C12_JoinAppendsOne ==
    [][(request'.op \in {"join-room", "create-room"} /\ out'[1].success)
       => LET member == [id |-> request'.conn,
                         username |-> Trim(request'.username),
                         ready |-> FALSE]
          IN  IF request'.op = "join-room"
              THEN \E i \in DOMAIN rooms :
                      /\ rooms[i].id = request'.roomId
                      /\ rooms' = [rooms EXCEPT
                                     ![i].users = Append(@, member)]
              ELSE /\ RoomsHas(rooms', out'[1].roomId)
                   /\ RoomsGet(rooms', out'[1].roomId).users = << member >>]_vars

\* A connection has joined a member that was ready: the room holds the ready
\* member first and the newcomer, not ready, after it.
C12_Witness ==
    /\ request.op = "join-room"
    /\ out[1].success
    /\ \E room \in LiveRooms :
          /\ room.id = request.roomId
          /\ Len(room.users) = 2
          /\ room.users[1].ready
          /\ room.users[1].id # request.conn
          /\ room.users[2] = [id |-> request.conn,
                              username |-> Trim(request.username),
                              ready |-> FALSE]

(***************************************************************************)
(* C13: get-lobbies always answers, with at most 5 entries and without     *)
(* changing anything; every entry is a live room with exactly 1 member     *)
(* (more than 0, fewer than 2) and carries the number of members the room  *)
(* has, no room is listed twice and no full room is listed; when at most 5 *)
(* such rooms are live the answer lists all of them.                       *)
(***************************************************************************)
OpenRooms == { i \in DOMAIN rooms : Len(rooms[i].users) \in 1..(Capacity - 1) }

C13_ListOpenRooms ==
    request.op = "get-lobbies"
    => /\ Len(out) = 1
       /\ out[1].kind = "response" /\ out[1].to = {request.conn}
       /\ ended
       /\ LET lobbies == out[1].lobbies
          IN  /\ Len(lobbies) <= 5
              /\ \A k \in DOMAIN lobbies :
                    \E i \in OpenRooms :
                        /\ rooms[i].id = lobbies[k].id
                        /\ Len(rooms[i].users) = lobbies[k].playerCount
              /\ \A k, l \in DOMAIN lobbies :
                    lobbies[k].id = lobbies[l].id => k = l
              /\ Cardinality(OpenRooms) <= 5
                    => \A i \in OpenRooms :
                          \E k \in DOMAIN lobbies : lobbies[k].id = rooms[i].id

\* Six or more rooms wait for a second member and a full room stands among
\* the first five rooms of the store: the answer has five entries, one of
\* them a room past the fifth of the store.
C13_Witness ==
    /\ request.op = "get-lobbies"
    /\ Cardinality(OpenRooms) > 5
    /\ Len(out[1].lobbies) = 5
    /\ \E i \in 1..5 : Len(rooms[i].users) = 2
    /\ \E k \in DOMAIN out[1].lobbies :
          \E i \in OpenRooms : i > 5 /\ rooms[i].id = out[1].lobbies[k].id

(***************************************************************************)
(* C14: when the only member of a room leaves, its connection closing, the *)
(* room is deleted: no live room is left with a closed connection as its   *)
(* only member; and a join-room with a valid name for a room id that no    *)
(* live room has is rejected with "Room not found.".                       *)
(***************************************************************************)
C14_LastMemberDeletesRoom ==
    /\ \A room \in LiveRooms :
          Len(room.users) = 1 => sockets[room.users[1].id] # "closed"
    /\ (/\ request.op = "join-room"
        /\ ValidName(request.username)
        /\ ~RoomsHas(rooms, request.roomId))
       => Rejected(request.conn, ErrRoomNotFound)

(***************************************************************************)
(* C15: in every reachable state every room of the rooms Map has at least  *)
(* one member: the disconnect that empties a member list deletes the room  *)
(* in the same step.                                                       *)
(***************************************************************************)
C15_NoEmptyRoom == \A room \in LiveRooms : Len(room.users) >= 1

\* The disconnect of the only member of the only room has deleted the room
\* and told every socket that the lobbies changed.
C15_Witness ==
    /\ request.op = "disconnect"
    /\ out = << LobbiesUpdated(sockets) >>
    /\ rooms = <<>>
    /\ users = {}
    /\ steps >= 2

(***************************************************************************)
(* C16: the disconnect of a member of a room of 2 members that has had no  *)
(* start-game leaves the room live with exactly 1 member, the other one    *)
(* with its ready flag as it was, and a get-lobbies served after it lists  *)
(* the room.                                                               *)
(***************************************************************************)
C16_DisconnectReopensRoom ==
    [][request'.op = "disconnect"
       => \A i \in DOMAIN rooms :
             (/\ Len(rooms[i].users) = 2
              /\ HasUserId(rooms[i], request'.conn)
              /\ starts[rooms[i].id] = 0)
             => /\ RoomsHas(rooms', rooms[i].id)
                /\ RoomsGet(rooms', rooms[i].id)
                      = SpliceUser(rooms[i], request'.conn)
                /\ \E k \in DOMAIN LobbyScan(rooms', 1, <<>>) :
                      LobbyScan(rooms', 1, <<>>)[k].id = rooms[i].id]_vars

(***************************************************************************)
(* C17: the disconnect handler run a second time for a connection changes  *)
(* nothing of the rooms, the users map and the sockets, and emits nothing: *)
(* two runs leave what one run leaves.                                     *)
(***************************************************************************)
C17_DisconnectIdempotent ==
    request.op = "disconnect-again" => (out = <<>> /\ ended)

\* The second run met a room that still lists the connection, and left it.
C17_Witness ==
    /\ request.op = "disconnect-again"
    /\ out = <<>>
    /\ RoomsListing(request.conn) # {}

(***************************************************************************)
(* C18: the start-game a toggle-ready causes is delivered to every member  *)
(* of the room and carries the room with exactly 2 members, both ready.    *)
(***************************************************************************)
MemberIds(room) == { room.users[j].id : j \in DOMAIN room.users }

C18_StartReachesMembers ==
    \A k \in StartsSent :
        /\ MemberIds(out[k].room) \subseteq out[k].to
        /\ Len(out[k].room.users) = 2
        /\ AllReady(out[k].room)

(***************************************************************************)
(* C19: a toggle-ready of a connection that no room lists as a member is   *)
(* answered with a failure, "User not found." when the users map has no    *)
(* entry for it and "User not found in any room." when it has one; it      *)
(* changes nothing and emits neither room-update nor start-game.           *)
(***************************************************************************)
C19_ToggleOutsideRoom ==
    (request.op = "toggle-ready" /\ RoomsListing(request.conn) = {})
    => /\ Len(out) = 1
       /\ out[1].kind = "response"
       /\ out[1].to = {request.conn}
       /\ ~out[1].success
       /\ out[1].error = IF UsersHas(users, request.conn)
                         THEN ErrNotInRoom ELSE ErrUserNotFound
       /\ ended

\* The toggle of a member whose room was replaced by a room of the same id:
\* the users map knows the connection, no room lists it.
C19_Witness ==
    /\ request.op = "toggle-ready"
    /\ RoomsListing(request.conn) = {}
    /\ UsersHas(users, request.conn)
    /\ out[1].error = ErrNotInRoom
    /\ rooms # <<>>

(***************************************************************************)
(* C20: a toggle-ready that succeeds negates the ready flag of one member, *)
(* an entry of the calling connection, and nothing else: the member list   *)
(* of the room, the flag of the other member, every other room and the     *)
(* users map are as they were.                                             *)
(***************************************************************************)
C20_ToggleFlipsOwnFlag ==
    [][(/\ request'.op = "toggle-ready"
        /\ \E r \in DOMAIN out' : out'[r].kind = "response" /\ out'[r].success)
       => /\ \E i \in DOMAIN rooms :
                \E j \in DOMAIN rooms[i].users :
                   /\ rooms[i].users[j].id = request'.conn
                   /\ rooms' = [rooms EXCEPT ![i].users[j].ready = ~@]
          /\ users' = users]_vars

\* Two rooms are live; the caller has become ready in a room whose other
\* member, another connection, is not ready.
C20_Witness ==
    /\ request.op = "toggle-ready"
    /\ \E r \in Responses : out[r].success
    /\ Len(rooms) = 2
    /\ \E room \in LiveRooms :
          /\ Len(room.users) = 2
          /\ \E j, k \in DOMAIN room.users :
                /\ room.users[j].id = request.conn /\ room.users[j].ready
                /\ room.users[k].id # request.conn /\ ~room.users[k].ready

(***************************************************************************)
(* C21: every step that creates a room or changes the member list or a     *)
(* ready flag of a room that is live after it (create-room, join-room,     *)
(* toggle-ready, a disconnect that leaves a member) emits a room-update    *)
(* that carries the room as it is after the step and reaches every member  *)
(* of the room.                                                            *)
(***************************************************************************)
C21_RoomUpdateToMembers ==
    [][\A i \in DOMAIN rooms' :
          rooms'[i] \notin LiveRooms
          => \E k \in DOMAIN out' :
                /\ out'[k].kind = "room-update"
                /\ out'[k].room = rooms'[i]
                /\ MemberIds(rooms'[i]) \subseteq out'[k].to]_vars

(***************************************************************************)
(* C22: the events of a room (room-update, start-game, new-message) reach  *)
(* only connections that the room lists as members when they are emitted.  *)
(***************************************************************************)
RoomEvents ==
    { k \in DOMAIN out : out[k].kind \in {"room-update", "start-game", "new-message"} }
EventRoomId(sent) == IF sent.kind = "new-message" THEN sent.roomId ELSE sent.room.id

C22_RoomEventsToMembersOnly ==
    \A k \in RoomEvents :
        /\ RoomsHas(rooms, EventRoomId(out[k]))
        /\ out[k].to \subseteq MemberIds(RoomsGet(rooms, EventRoomId(out[k])))

(***************************************************************************)
(* C23: get-room-state sends the room, as it is, to the requester alone,   *)
(* and only for a live room that lists the requester as a member; for any  *)
(* other room id or requester nothing is sent.  It never changes state.    *)
(***************************************************************************)
C23_GetRoomState ==
    request.op = "get-room-state"
    => /\ ended
       /\ IF \E room \in LiveRooms :
                room.id = request.roomId /\ request.conn \in MemberIds(room)
          THEN /\ Len(out) = 1
               /\ out[1].kind = "specific-room-update"
               /\ out[1].to = {request.conn}
               /\ out[1].room \in LiveRooms
               /\ out[1].room.id = request.roomId
          ELSE out = <<>>

\* A connection that is in no room has asked for a live room of two members
\* and was sent nothing.
C23_Witness ==
    /\ request.op = "get-room-state"
    /\ out = <<>>
    /\ RoomsListing(request.conn) = {}
    /\ \E room \in LiveRooms : room.id = request.roomId /\ Len(room.users) = 2

(***************************************************************************)
(* C24: a send-message for room R with a text, from a member of R, is      *)
(* delivered as one new-message to every member of R, the sender among     *)
(* them, with the text sent (trimmed); from a connection that R does not   *)
(* list, or for a room id that no live room has, nothing is sent.  It      *)
(* never changes state.                                                    *)
(***************************************************************************)
SenderInRoom ==
    \E room \in LiveRooms :
        room.id = request.roomId /\ request.conn \in MemberIds(room)

C24_ChatToMembers ==
    request.op = "send-message"
    => /\ ended
       /\ ~SenderInRoom => out = <<>>
       /\ (SenderInRoom /\ request.message # <<>> /\ request.username # <<>>)
          => /\ Len(out) = 1
             /\ out[1].kind = "new-message"
             /\ out[1].roomId = request.roomId
             /\ out[1].msg.message = Trim(request.message)
             /\ MemberIds(RoomsGet(rooms, request.roomId)) \subseteq out[1].to

(***************************************************************************)
(* C25: a send-message whose text is empty once trimmed (empty or blank)   *)
(* is rejected: no new-message is sent to anyone.                          *)
(***************************************************************************)
C25_BlankMessageRejected ==
    (request.op = "send-message" /\ Trim(request.message) = <<>>)
    => \A k \in DOMAIN out : out[k].kind # "new-message"

(***************************************************************************)
(* C26: every connection receives the chat messages of a room in the order *)
(* the server accepted them, and the timestamps of the successive messages *)
(* of a room do not decrease.                                              *)
(***************************************************************************)
C26_ChatOrderAndTime ==
    /\ \A c \in Conns :
          \A k, l \in DOMAIN inbox[c] :
             k < l => /\ inbox[c][k].n < inbox[c][l].n
                      /\ chatLog[inbox[c][k].n].msg = inbox[c][k].msg
    /\ \A k, l \in DOMAIN chatLog :
          (k < l /\ chatLog[k].roomId = chatLog[l].roomId)
             => chatLog[k].msg.timestamp <= chatLog[l].msg.timestamp

OpenListing(rs) ==
    { [id |-> rs[i].id, playerCount |-> Len(rs[i].users)] :
        i \in { j \in DOMAIN rs : Len(rs[j].users) \in 1..(Capacity - 1) } }

C28_LobbyChangeSignalled ==
    [][OpenListing(rooms') # OpenListing(rooms)
       => \E k \in DOMAIN out' :
             out'[k] = Sent("lobbies-updated", { c \in Conns : sockets'[c] = "open" })]_vars

\* The disconnect of a member of a full room has left the other member, a
\* connected socket, which was told that the lobbies changed.
C28_Witness ==
    /\ request.op = "disconnect"
    /\ \E room \in LiveRooms :
          /\ Len(room.users) = 1
          /\ room.users[1].id # request.conn
          /\ \E k \in DOMAIN out :
                /\ out[k].kind = "lobbies-updated"
                /\ room.users[1].id \in out[k].to
          /\ \E k \in DOMAIN out : out[k].kind = "room-update" /\ out[k].room = room

(***************************************************************************)
(* C29: the members of a room receive its room-update events in one order, *)
(* the order in which the server changed the room: every socket receives   *)
(* them in the order of the changes, each carrying the room as that change *)
(* left it.                                                                *)
(***************************************************************************)
C29_BroadcastOrder ==
    \A c \in Conns :
        /\ \A k \in DOMAIN seen[c] :
              /\ seen[c][k].n \in DOMAIN applied
              /\ applied[seen[c][k].n] = seen[c][k].room
        /\ \A k, l \in DOMAIN seen[c] : k < l => seen[c][k].n < seen[c][l].n

\* Two connections have each received three or more updates of the room
\* they share, the last of them the same.
C29_Witness ==
    \E c, d \in Conns :
        /\ c # d
        /\ Len(seen[c]) >= 3
        /\ Len(seen[d]) >= 3
        /\ seen[c][Len(seen[c])] = seen[d][Len(seen[d])]
        /\ \E room \in LiveRooms : {c, d} \subseteq MemberIds(room)

(***************************************************************************)
(* C30: a create-room, join-room or toggle-ready request that was handled  *)
(* has exactly one response, sent to the requester alone, and the response *)
(* is either a success without an error or a failure with its error.       *)
(***************************************************************************)
C30_OneResponse ==
    request.op \in {"create-room", "join-room", "toggle-ready"}
    => /\ Cardinality(Responses) = 1
       /\ \A k \in Responses :
             /\ out[k].to = {request.conn}
             /\ out[k].success <=> out[k].error = ""

\* A toggle that was answered with a success amid the events of a game start.
C30_Witness ==
    /\ request.op = "toggle-ready"
    /\ StartsSent # {}
    /\ \E k \in Responses : out[k].success

(***************************************************************************)
(* C31: a create-room, join-room or toggle-ready request that is answered  *)
(* with a failure produces that response to the requester and nothing      *)
(* else: no room-update, lobbies-updated, start-game or new-message event. *)
(***************************************************************************)
C31_FailureEmitsNothingElse ==
    request.op \in {"create-room", "join-room", "toggle-ready"}
    => \A k \in Responses :
          ~out[k].success => out = << Failure(request.conn, out[k].error) >>

\* A join under a name that is taken was refused while the member holding
\* the name is connected.
C31_Witness ==
    /\ request.op = "join-room"
    /\ Rejected(request.conn, ErrDuplicateName)
    /\ \E room \in LiveRooms :
          /\ room.id = request.roomId
          /\ \E d \in MemberIds(room) : d # request.conn /\ sockets[d] = "open"

(***************************************************************************)
(* C32: in every reachable state the members of one room have pairwise     *)
(* different names; members of two different rooms may have the same name. *)
(***************************************************************************)
C32_NamesUniqueInRoom ==
    \A room \in LiveRooms :
        \A k, l \in DOMAIN room.users :
            k # l => room.users[k].username # room.users[l].username

\* Two live rooms, each with a member of the same name.
C32_Witness ==
    \E i, j \in DOMAIN rooms :
        /\ i # j
        /\ \E k \in DOMAIN rooms[i].users : \E l \in DOMAIN rooms[j].users :
              rooms[i].users[k].username = rooms[j].users[l].username

(***************************************************************************)
(* C33: in every reachable state the users map and the rooms agree: a      *)
(* socket has an entry in the users map if and only if some live room      *)
(* lists it as a member.                                                   *)
(***************************************************************************)
C33_UsersAgreeWithRooms ==
    \A c \in Conns : UsersHas(users, c) <=> RoomsListing(c) # {}

(***************************************************************************)
(* C34: once a client has left its room with Leave Room, its connection    *)
(* staying open, the server lists the socket in no room and has no users   *)
(* entry for it (and so a room it was alone in is gone).                   *)
(***************************************************************************)
C34_LeaveRemovesMember ==
    request.op = "handleLeaveRoom"
    => /\ RoomsListing(request.conn) = {}
       /\ ~UsersHas(users, request.conn)

(***************************************************************************)
(* C35: of what a successful join-room sends to the socket that joined,    *)
(* the confirmation comes first, the room-update that lists the socket     *)
(* second and the lobbies-updated signal third.                            *)
(***************************************************************************)
C35_JoinConfirmedFirst ==
    (request.op = "join-room" /\ \E k \in Responses : out[k].success)
    => \E k, l, m \in DOMAIN out :
          /\ k < l /\ l < m
          /\ out[k] = Success(request.conn, request.roomId)
          /\ out[l].kind = "room-update"
          /\ request.conn \in out[l].to
          /\ request.conn \in MemberIds(out[l].room)
          /\ out[m].kind = "lobbies-updated"
          /\ request.conn \in out[m].to
          /\ \A n \in DOMAIN out : n \in {k, l, m}

\* A socket has joined the room of another, connected socket: both are
\* addressed by the room-update, which is the second of three things sent.
C35_Witness ==
    /\ request.op = "join-room"
    /\ Len(out) = 3
    /\ out[1].success
    /\ out[2].kind = "room-update"
    /\ \E d \in out[2].to : d # request.conn

(***************************************************************************)
(* C36: in every reachable state the members of a room have pairwise       *)
(* different socket ids: a socket that joins the room it is in, under      *)
(* another name, gets no second entry.                                     *)
(***************************************************************************)
C36_OneEntryPerSocket ==
    \A room \in LiveRooms :
        \A k, l \in DOMAIN room.users : k # l => room.users[k].id # room.users[l].id

(***************************************************************************)
(* C37: a join-room that fails reports the first failure that applies, in  *)
(* the order invalid name, room not found, room full, name taken: a taken  *)
(* name into a full room reports the full room, an invalid name into a     *)
(* missing room reports the name.                                          *)
(***************************************************************************)
C37_JoinErrorOrder ==
    (request.op = "join-room" /\ \E k \in Responses : ~out[k].success)
    => LET named == { room \in LiveRooms : room.id = request.roomId }
           full == \E room \in named : Len(room.users) >= 2
           taken == \E room \in named : \E k \in DOMAIN room.users :
                        room.users[k].username = Trim(request.username)
       IN  IF ~ValidName(request.username)
           THEN Rejected(request.conn, ErrInvalidName)
           ELSE IF named = {} THEN Rejected(request.conn, ErrRoomNotFound)
           ELSE IF full THEN Rejected(request.conn, ErrRoomFull)
           ELSE taken /\ Rejected(request.conn, ErrDuplicateName)

\* A join into a room of two members under the name of one of them was
\* refused for the room being full.
C37_Witness ==
    /\ request.op = "join-room"
    /\ Rejected(request.conn, ErrRoomFull)
    /\ \E room \in LiveRooms :
          /\ room.id = request.roomId
          /\ \E k \in DOMAIN room.users :
                room.users[k].username = Trim(request.username)

(***************************************************************************)
(* C38: of what a toggle-ready that starts a room sends, the room-update   *)
(* showing both members ready comes before the start-game and goes to the  *)
(* sockets the start-game goes to, the success response of the caller      *)
(* comes before the start-game, and lobbies-updated comes after it.        *)
(***************************************************************************)
C38_StartOrder ==
    \A s \in StartsSent :
        /\ \E u \in 1..(s - 1) :
              /\ out[u].kind = "room-update"
              /\ out[u].room = out[s].room
              /\ out[u].to = out[s].to
              /\ Len(out[u].room.users) = 2
              /\ AllReady(out[u].room)
        /\ \E r \in 1..(s - 1) : out[r] = Success(request.conn, <<>>)
        /\ \E l \in (s + 1)..Len(out) :
              out[l] = Sent("lobbies-updated", Connected(sockets))
        /\ \A l \in 1..(s - 1) : out[l].kind # "lobbies-updated"

\* A room of two connected sockets has been started by the toggle of the
\* one that joined, and the start-game goes to both.
C38_Witness ==
    /\ request.op = "toggle-ready"
    /\ \E s \in StartsSent :
          /\ Cardinality(out[s].to) = 2
          /\ out[s].to = MemberIds(out[s].room)
          /\ out[s].room.users[2].id = request.conn

(***************************************************************************)
(* C39: a client renders the game scene only for the room it has joined    *)
(* and only once start-game has been emitted for that room: not after it   *)
(* has left the room with Leave Room, and not for another room than the    *)
(* one it joined afterwards.                                               *)
(***************************************************************************)
C39_GameSceneOfJoinedRoom ==
    \A c \in Conns :
        (sockets[c] = "open" /\ ShowsGame(client[c], c))
        => /\ client[c].joinedRoomId = client[c].roomState.id
           /\ starts[client[c].roomState.id] > 0

====
